---- MODULE Spec2Model ----
(***************************************************************************)
(* A model of sweeper (src/sweeper/sweeper.py): the duplicate scan in its  *)
(* batch form (file_dups) and its incremental form (file_dups_immediate),  *)
(* the keep policy (_extract_files_for_action) and the remove and move     *)
(* actions (rm_file_dups, mv_file_dups).                                   *)
(*                                                                         *)
(* A path is a string, written as the sequence of its characters (the      *)
(* directory, then the name); a file's content is a sequence of bytes; a   *)
(* fingerprint (hexmd) is the tuple of the digests of the configured       *)
(* algorithms. verbose is False throughout.                                *)
(***************************************************************************)
EXTENDS Integers, Sequences, FiniteSets, TLC

VARIABLES
    fs,           \* canonical path -> content (the bytes of the file)
    links,        \* the directory entries that are symbolic links to a file
    topdirs,      \* the directories to scan, in order
    root,         \* the file iterator: the index of the top directory it walks
    listed,       \* the file iterator: the entries of that walk handed out
    hashalgs,     \* the configured digest algorithms, in order
    block_size,   \* the block size _filehash reads with
    safe_mode,    \* byte compare hash duplicates
    op,           \* the entry point that runs
    pc,           \* where the entry point stands
    scanned,      \* the canonical paths pulled from the file iterator so far
    dups,         \* the index: hexmd -> list of accepted paths
    yields,       \* the tuples file_dups_immediate has yielded so far
    result,       \* what file_dups returned (once pc says so)
    err,          \* the exception that ended the run: <<>> or <<kind, path>>
    simulate,     \* rm/mv: only print
    keep_prefix,  \* rm/mv: <<>> is None, <<s>> is the string s
    dest,         \* mv: what dest_dir is: "absent", "dir" or "file"
    present,      \* the paths that are still files in their place
    moved,        \* the paths that were moved into dest_dir
    todo,         \* rm/mv: the keys of the result not yet handed out
    cur,          \* rm/mv: the extracted files of the current group still to act on
    plans,        \* rm/mv: the (files, result) pairs _extract_files_for_action yielded
    log,          \* rm/mv and main: the lines printed
    args,         \* main: the parsed command line, <<>> when main does not run
    handles,      \* the paths the scan holds an open file object for
    alg_at,       \* the fingerprint tuple: the index of the algorithm it is at
    cmp_at,       \* the byte comparison loop: the index of the member it is at
    fbeq          \* the last call of _fbequal: <<>> or <<content1, content2, returned>>

vars == <<fs, links, topdirs, root, listed, hashalgs, block_size, safe_mode, op, pc, scanned, dups, yields,
          result, err, simulate, keep_prefix, dest, present, moved, todo, cur,
          plans, log, args, handles, alg_at, cmp_at, fbeq>>

\* What the loop turns of the scans and of the actions never write.
iovars == <<args, handles, alg_at, cmp_at, fbeq>>
cfgvars == <<fs, links, topdirs, hashalgs, block_size, safe_mode, op, simulate,
             keep_prefix, iovars>>
actvars == <<dest, present, moved, todo, cur, plans, log>>

\* ---------------------------------------------------------------- bounds

\* The longest list of top directories that is explored.
MaxRoots == 2

\* The longest file content _fbequal is called on by itself.
MaxLen == 3

\* ------------------------------------------------------------- the files

\* The regular files under the scanned roots, by canonical path.
Paths == {<<"a", "x">>, <<"a", "y">>, <<"b", "x">>}

\* The regular files of the trees the remove and move actions run on.
ActPaths == Paths \cup {<<"b", "y">>}

\* The directories that hold them.
Dirs == {"a", "b"}

\* A directory entry that is a symbolic link to the regular file a/x.
Links == {<<"b", "l">>}

\* Every directory entry there may be.
Entries == ActPaths \cup Links

\* os.path.realpath: a link resolves to its target, a regular file to itself.
realpath(e) == IF e \in links THEN <<"a", "x">> ELSE e

\* The filenames os.walk(topdir) lists, joined to the directory: the regular
\* files of the directory and the links in it.
Walk(topdir) == {e \in DOMAIN fs \cup links : e[1] = topdir}

\* _files_iter_from_disk: what the iterator may hand out next. A directory
\* is listed in the order of the file system, which is any order.
Pending == IF root <= Len(topdirs) THEN Walk(topdirs[root]) \ listed ELSE {}

\* The iterator after it handed out e: at the end of a walk it goes on to
\* the next top directory.
RootAfter(e) == IF Pending = {e} THEN root + 1 ELSE root
ListedAfter(e) == IF Pending = {e} THEN {} ELSE listed \cup {e}

Exhausted == root > Len(topdirs)

\* The contents a file may have.
Contents == {<<>>, <<0>>, <<1>>, <<1, 1>>}

Range(s) == {s[i] : i \in DOMAIN s}

\* ------------------------------------------------------------- _filehash

\* f.read(n) on the rest of a file: n < 0 reads it all, otherwise at most n bytes.
Read(rest, n) ==
    IF n < 0 \/ n >= Len(rest) THEN rest ELSE SubSeq(rest, 1, n)

RECURSIVE SumBytes(_)
SumBytes(buf) == IF buf = <<>> THEN 0 ELSE Head(buf) + SumBytes(Tail(buf))

\* hashlib.new(hashalg): the digest state before any update.
HashNew(hashalg) == 0

\* md.update(buf). The digests are stand-ins with a small range, so that files
\* of different content may share a digest: "md5" is a byte checksum, "sha1" a
\* length checksum.
HashUpdate(hashalg, md, buf) ==
    IF hashalg = "md5" THEN (md + SumBytes(buf)) % 2 ELSE (md + Len(buf)) % 2

\* for buf in iter(lambda: f.read(block_size), b''): md.update(buf)
RECURSIVE HashBlocks(_, _, _, _)
HashBlocks(hashalg, md, rest, bs) ==
    LET buf == Read(rest, bs)
    IN  IF buf = <<>> THEN md
        ELSE HashBlocks(hashalg, HashUpdate(hashalg, md, buf),
                        SubSeq(rest, Len(buf) + 1, Len(rest)), bs)

\* _filehash(filepath, hashalg, block_size), on the content of filepath.
_filehash(content, hashalg, bs) == HashBlocks(hashalg, HashNew(hashalg), content, bs)

\* Every tuple of digests there may be.
Hexmds == UNION {[1..n -> 0..1] : n \in 1..2}

\* A fingerprint of the first configured algorithm only.
HexmdOfFirstAlg(content) == <<_filehash(content, hashalgs[1], block_size)>>

\* hexmd = tuple(_filehash(fpath, h, block_size) for h in hashalgs)
Hexmd(content) == [i \in 1..Len(hashalgs) |-> _filehash(content, hashalgs[i], block_size)]

\* -------------------------------------------------------------- _fbequal

\* f.read(1) at position i: the byte there, or b'' at the end of the file.
Read1(content, i) == IF i <= Len(content) THEN <<content[i]>> ELSE <<>>

\* The while loop without its "if b1 != b2: return False".
RECURSIVE FbLoopNoByteTest(_, _, _)
FbLoopNoByteTest(c1, c2, i) ==
    LET b1 == Read1(c1, i)
        b2 == Read1(c2, i)
    IN  IF b1 = <<>> \/ b2 = <<>> THEN (b1 = <<>> /\ b2 = <<>>)
        ELSE FbLoopNoByteTest(c1, c2, i + 1)

\* The while loop of _fbequal from position i on.
RECURSIVE FbLoop(_, _, _)
FbLoop(c1, c2, i) ==
    LET b1 == Read1(c1, i)
        b2 == Read1(c2, i)
    IN  IF b1 # b2 THEN FALSE
        ELSE IF b1 = <<>> \/ b2 = <<>> THEN (b1 = <<>> /\ b2 = <<>>)
        ELSE FbLoop(c1, c2, i + 1)

\* _fbequal(fpath1, fpath2), on the contents of the two files.
_fbequal(c1, c2) == FbLoop(c1, c2, 1)

\* ------------------------------------------------------------ _uniq_list

RECURSIVE UniqLoop(_, _)
UniqLoop(list_, acc) ==
    IF list_ = <<>> THEN acc
    ELSE UniqLoop(Tail(list_),
                  IF Head(list_) \in Range(acc) THEN acc ELSE Append(acc, Head(list_)))

\* _uniq_list without its membership test: every element is appended.
_uniq_list_keep_all(list_) == list_

_uniq_list(list_) == UniqLoop(list_, <<>>)

\* ------------------------------------------------------------- the scan

\* dup_files = dups[hexmd], on a defaultdict(list).
DupFiles(hexmd) == IF hexmd \in DOMAIN dups THEN dups[hexmd] ELSE <<>>

\* had_dup_list = True if dup_files else False
HadDupList(dup_files) == dup_files # <<>>

\* files_equals as if safe mode were off: the byte comparison is never consulted.
FilesEqualsTrustHash(dup_files, fpath) == TRUE

\* files_equals after the safe mode block of the loop body.
FilesEquals(dup_files, fpath) ==
    IF safe_mode
    THEN IF dup_files # <<>>
         THEN \E i \in 1..Len(dup_files) : _fbequal(fs[dup_files[i]], fs[fpath])
         ELSE TRUE
    ELSE TRUE

\* The loop body without its "if files_equals:" before the append.
DupsAfterAlwaysAppend(hexmd, fpath) ==
    [k \in DOMAIN dups \cup {hexmd} |->
        IF k = hexmd THEN Append(DupFiles(hexmd), fpath) ELSE dups[k]]

\* The loop body with dups[hexmd].insert(0, fpath) for its append.
DupsAfterPrepend(hexmd, fpath) ==
    LET dup_files == DupFiles(hexmd)
    IN  [k \in DOMAIN dups \cup {hexmd} |->
            IF k = hexmd
            THEN IF FilesEquals(dup_files, fpath) THEN <<fpath>> \o dup_files
                 ELSE dup_files
            ELSE dups[k]]

\* The index after the loop body for fpath: the lookup makes the key, and
\* the path is appended if files_equals.
DupsAfter(hexmd, fpath) ==
    LET dup_files == DupFiles(hexmd)
    IN  [k \in DOMAIN dups \cup {hexmd} |->
            IF k = hexmd
            THEN IF FilesEquals(dup_files, fpath) THEN Append(dup_files, fpath)
                 ELSE dup_files
            ELSE dups[k]]

\* The yield condition without had_dup_list: a group's first member is yielded too.
YieldsItAlways(dup_files, fpath) == FilesEquals(dup_files, fpath)

\* if files_equals and had_dup_list: yield (fpath, hexmd, dups[hexmd])
YieldsIt(dup_files, fpath) == FilesEquals(dup_files, fpath) /\ HadDupList(dup_files)

\* The result loop with "len(uniq_v) > 0": singletons are returned too.
FinalizeWithSingletons(d) ==
    LET keep == {k \in DOMAIN d : Len(_uniq_list(d[k])) > 0}
    IN  [k \in keep |-> _uniq_list(d[k])]

\* The groups file_dups returns: the unique lists longer than one.
Finalize(d) ==
    LET keep == {k \in DOMAIN d : Len(_uniq_list(d[k])) > 1}
    IN  [k \in keep |-> _uniq_list(d[k])]

NoResult == [k \in {} |-> <<>>]

\* One turn of the for loop of file_dups or file_dups_immediate: the iterator
\* hands out the canonical path of an entry, the file is hashed, compared
\* and indexed; the incremental scan suspends at its yield.
ScanStep(e) ==
    LET fpath == realpath(e)
        hexmd == Hexmd(fs[fpath])
        dup_files == DupFiles(hexmd)
    IN  /\ pc = "walk"
        /\ e \in Pending
        /\ root' = RootAfter(e)
        /\ listed' = ListedAfter(e)
        /\ scanned' = Append(scanned, fpath)
        /\ dups' = DupsAfter(hexmd, fpath)
        /\ IF op = "file_dups_immediate" /\ YieldsIt(dup_files, fpath)
           THEN /\ yields' = Append(yields, [fpath |-> fpath, hexmd |-> hexmd,
                                             members |-> dups'[hexmd]])
                /\ pc' = "yield"
           ELSE /\ yields' = yields
                /\ pc' = "walk"
        /\ UNCHANGED <<cfgvars, actvars, result, err>>

\* A loop body that catches the exception of _filehash and goes on with the
\* next path.
HashFailSkip(e) ==
    /\ pc = "walk"
    /\ e \in Pending
    /\ root' = RootAfter(e)
    /\ listed' = ListedAfter(e)
    /\ scanned' = Append(scanned, realpath(e))
    /\ err' = <<"hash", realpath(e)>>
    /\ pc' = "walk"
    /\ UNCHANGED <<cfgvars, actvars, dups, yields, result>>

\* _filehash raises (open or read fails): the exception leaves the scan.
HashFail(e) ==
    /\ pc = "walk"
    /\ e \in Pending
    /\ root' = RootAfter(e)
    /\ listed' = ListedAfter(e)
    /\ scanned' = Append(scanned, realpath(e))
    /\ err' = <<"hash", realpath(e)>>
    /\ pc' = "error"
    /\ UNCHANGED <<cfgvars, actvars, dups, yields, result>>

\* _fbequal raises on some member of the group the loop gets to: the members
\* before it compared unequal. The exception leaves the scan.
CmpFail(e) ==
    LET fpath == realpath(e)
        dup_files == DupFiles(Hexmd(fs[fpath]))
    IN  /\ pc = "walk"
        /\ e \in Pending
        /\ safe_mode
        /\ \E i \in 1..Len(dup_files) :
              \A j \in 1..(i - 1) : ~_fbequal(fs[dup_files[j]], fs[fpath])
        /\ root' = RootAfter(e)
        /\ listed' = ListedAfter(e)
        /\ scanned' = Append(scanned, fpath)
        /\ err' = <<"cmp", fpath>>
        /\ pc' = "error"
        /\ UNCHANGED <<cfgvars, actvars, dups, yields, result>>

\* ----------------------------------------- the scan, file object by file object

\* The path the loop body is at.
FPath == scanned[Len(scanned)]

\* Leaving a with block without closing what it opened.
WithExitLeaks(open_, files) == open_

\* Leaving a with block, by its end, a return or an exception: the file
\* objects it opened are closed.
WithExit(open_, files) == open_ \ files

\* The iterator hands out the next path and _filehash opens it for the first
\* algorithm.
HashOpen(e) ==
    /\ pc = "walk"
    /\ e \in Pending
    /\ root' = RootAfter(e)
    /\ listed' = ListedAfter(e)
    /\ scanned' = Append(scanned, realpath(e))
    /\ handles' = handles \cup {realpath(e)}
    /\ alg_at' = 1
    /\ pc' = "hash"
    /\ UNCHANGED <<fs, links, topdirs, hashalgs, block_size, safe_mode, op, simulate,
                   keep_prefix, args, cmp_at, fbeq, actvars, dups, yields, result, err>>

\* open() in _filehash raises: there is no file object, the exception leaves
\* the scan.
HashOpenFail(e) ==
    /\ pc = "walk"
    /\ e \in Pending
    /\ root' = RootAfter(e)
    /\ listed' = ListedAfter(e)
    /\ scanned' = Append(scanned, realpath(e))
    /\ err' = <<"hash", realpath(e)>>
    /\ pc' = "error"
    /\ UNCHANGED <<cfgvars, actvars, dups, yields, result>>

\* _filehash has read the file to its end and returns: its with block is
\* left. The tuple goes on to the next algorithm, which opens the file again,
\* or is complete.
HashClose ==
    /\ pc = "hash"
    /\ IF alg_at < Len(hashalgs)
       THEN /\ handles' = WithExit(handles, {FPath}) \cup {FPath}
            /\ alg_at' = alg_at + 1
            /\ pc' = "hash"
            /\ cmp_at' = cmp_at
       ELSE /\ handles' = WithExit(handles, {FPath})
            /\ alg_at' = alg_at
            /\ cmp_at' = 1
            /\ pc' = "hashed"
    /\ UNCHANGED <<fs, links, topdirs, hashalgs, block_size, safe_mode, op, simulate,
                   keep_prefix, args, fbeq, actvars, root, listed, scanned, dups,
                   yields, result, err>>

\* A read in _filehash raises: the exception leaves the with block and the
\* scan.
HashRaise ==
    /\ pc = "hash"
    /\ handles' = WithExit(handles, {FPath})
    /\ err' = <<"hash", FPath>>
    /\ pc' = "error"
    /\ UNCHANGED <<fs, links, topdirs, hashalgs, block_size, safe_mode, op, simulate,
                   keep_prefix, args, alg_at, cmp_at, fbeq, actvars, root, listed,
                   scanned, dups, yields, result>>

\* The safe mode loop calls _fbequal for the next member of the group, which
\* opens the member and the path.
CmpOpen ==
    LET dup_files == DupFiles(Hexmd(fs[FPath]))
    IN  /\ pc = "hashed"
        /\ safe_mode
        /\ cmp_at <= Len(dup_files)
        /\ handles' = handles \cup {dup_files[cmp_at], FPath}
        /\ pc' = "cmp"
        /\ UNCHANGED <<fs, links, topdirs, hashalgs, block_size, safe_mode, op,
                       simulate, keep_prefix, args, alg_at, cmp_at, fbeq, actvars,
                       root, listed, scanned, dups, yields, result, err>>

\* _fbequal returns: its with block is left. On True the loop breaks with
\* files_equals; on False it goes to the next member, and after the last one
\* the loop body ends with nothing appended.
CmpClose ==
    LET dup_files == DupFiles(Hexmd(fs[FPath]))
        f == dup_files[cmp_at]
        equal == _fbequal(fs[f], fs[FPath])
    IN  /\ pc = "cmp"
        /\ handles' = WithExit(handles, {f, FPath})
        /\ fbeq' = <<fs[f], fs[FPath], equal>>
        /\ IF equal THEN pc' = "equal" /\ cmp_at' = cmp_at
           ELSE IF cmp_at < Len(dup_files) THEN pc' = "hashed" /\ cmp_at' = cmp_at + 1
           ELSE pc' = "walk" /\ cmp_at' = cmp_at
        /\ UNCHANGED <<fs, links, topdirs, hashalgs, block_size, safe_mode, op,
                       simulate, keep_prefix, args, alg_at, actvars, root, listed,
                       scanned, dups, yields, result, err>>

\* open() or a read in _fbequal raises: the exception leaves the with block
\* and the scan.
CmpRaise ==
    LET dup_files == DupFiles(Hexmd(fs[FPath]))
    IN  /\ pc = "cmp"
        /\ handles' = WithExit(handles, {dup_files[cmp_at], FPath})
        /\ err' = <<"cmp", FPath>>
        /\ pc' = "error"
        /\ UNCHANGED <<fs, links, topdirs, hashalgs, block_size, safe_mode, op,
                       simulate, keep_prefix, args, alg_at, cmp_at, fbeq, actvars,
                       root, listed, scanned, dups, yields, result>>

\* files_equals holds (no comparison was due, or one returned True): the
\* path is appended, and yielded if the group had a member.
AppendAndYield ==
    LET hexmd == Hexmd(fs[FPath])
        dup_files == DupFiles(hexmd)
    IN  /\ \/ pc = "equal"
           \/ pc = "hashed" /\ (~safe_mode \/ dup_files = <<>>)
        /\ dups' = [k \in DOMAIN dups \cup {hexmd} |->
                       IF k = hexmd THEN Append(dup_files, FPath) ELSE dups[k]]
        /\ IF op = "file_dups_immediate" /\ HadDupList(dup_files)
           THEN /\ yields' = Append(yields, [fpath |-> FPath, hexmd |-> hexmd,
                                             members |-> dups'[hexmd]])
                /\ pc' = "yield"
           ELSE /\ yields' = yields
                /\ pc' = "walk"
        /\ UNCHANGED <<cfgvars, actvars, root, listed, scanned, result, err>>

\* A call of _fbequal(fpath1, fpath2) by itself, on two readable files.
CallFbEqual(fpath1, fpath2) ==
    /\ pc = "call"
    /\ fpath1 \in DOMAIN fs
    /\ fpath2 \in DOMAIN fs
    /\ fbeq' = <<fs[fpath1], fs[fpath2], _fbequal(fs[fpath1], fs[fpath2])>>
    /\ UNCHANGED <<fs, links, topdirs, hashalgs, block_size, safe_mode, op, simulate,
                   keep_prefix, args, handles, alg_at, cmp_at, actvars, pc, root,
                   listed, scanned, dups, yields, result, err>>

\* The consumer of file_dups_immediate pulls the next tuple.
Resume ==
    /\ pc = "yield"
    /\ pc' = "walk"
    /\ UNCHANGED <<cfgvars, actvars, root, listed, scanned, dups, yields, result, err>>

\* The consumer of file_dups_immediate stops pulling: the generator is closed
\* at its yield.
Stop ==
    /\ pc = "yield"
    /\ pc' = "closed"
    /\ UNCHANGED <<cfgvars, actvars, root, listed, scanned, dups, yields, result, err>>

\* The file iterator is exhausted: file_dups builds and returns its result,
\* file_dups_immediate ends.
Finish ==
    /\ pc = "walk"
    /\ Exhausted
    /\ op \in {"file_dups", "file_dups_immediate"}
    /\ result' = IF op = "file_dups" THEN Finalize(dups) ELSE result
    /\ pc' = "done"
    /\ UNCHANGED <<cfgvars, actvars, root, listed, scanned, dups, yields, err>>

\* iter_file_dups handing out the groups of the index as it stands, before
\* the file iterator is exhausted.
IterFileDupsEarly ==
    /\ pc = "walk"
    /\ op \in {"rm_file_dups", "mv_file_dups"}
    /\ result' = Finalize(dups)
    /\ todo' = DOMAIN result'
    /\ pc' = "plan"
    /\ UNCHANGED <<cfgvars, root, listed, scanned, dups, yields, err,
                   dest, present, moved, cur, plans, log>>

\* file_dups returns to iter_file_dups, which hands its groups out one by one
\* (in the order of the dictionary, which the code does not fix).
IterFileDups ==
    /\ pc = "walk"
    /\ Exhausted
    /\ op \in {"rm_file_dups", "mv_file_dups"}
    /\ result' = Finalize(dups)
    /\ todo' = DOMAIN result'
    /\ pc' = "plan"
    /\ UNCHANGED <<cfgvars, root, listed, scanned, dups, yields, err,
                   dest, present, moved, cur, plans, log>>

\* ------------------------------------------- _extract_files_for_action

\* f.startswith(prefix)
startswith(f, prefix) ==
    Len(prefix) <= Len(f) /\ \A i \in 1..Len(prefix) : f[i] = prefix[i]

\* "if keep_prefix:" is false for None and for the empty string.
Truthy(kp) == kp # <<>> /\ kp[1] # <<>>

\* The for loop over files: <<found, result>> at its end.
RECURSIVE ExtractLoop(_, _, _, _)
ExtractLoop(files, prefix, found, res) ==
    IF files = <<>> THEN <<found, res>>
    ELSE IF startswith(Head(files), prefix) /\ ~found
         THEN ExtractLoop(Tail(files), prefix, TRUE, res)
         ELSE ExtractLoop(Tail(files), prefix, found, Append(res, Head(files)))

\* The loop without "and not found": every file with the prefix is kept.
ExtractedKeepAllMatches(files, kp) ==
    IF Truthy(kp) /\ \E i \in 1..Len(files) : startswith(files[i], kp[1])
    THEN SelectSeq(files, LAMBDA f : ~startswith(f, kp[1]))
    ELSE SubSeq(files, 2, Len(files))

\* The body without the keep_prefix block: the first file is always the kept one.
ExtractedKeepFirst(files, kp) == SubSeq(files, 2, Len(files))

\* result of _extract_files_for_action for one group: the files to act on.
Extracted(files, kp) ==
    LET r == IF Truthy(kp) THEN ExtractLoop(files, kp[1], FALSE, <<>>)
             ELSE <<FALSE, <<>>>>
    IN  IF ~r[1] THEN SubSeq(files, 2, Len(files)) ELSE r[2]

\* One turn of the for loop of rm_file_dups or mv_file_dups: the next group
\* comes with its extracted files; under simulate the group is printed.
PlanGroup(k) ==
    /\ pc = "plan"
    /\ k \in todo
    /\ todo' = todo \ {k}
    /\ cur' = Extracted(result[k], keep_prefix)
    /\ plans' = Append(plans, [files |-> result[k], result |-> cur'])
    /\ log' = IF simulate THEN Append(log, <<"found duplicates", result[k]>>) ELSE log
    /\ pc' = IF cur' = <<>> THEN "plan" ELSE "act"
    /\ UNCHANGED <<cfgvars, root, listed, scanned, dups, yields, result, err,
                   dest, present, moved>>

\* -------------------------------------------- rm_file_dups, mv_file_dups

Verb == IF op = "rm_file_dups" THEN "rm" ELSE "mv"

\* The head of mv_file_dups: dest_dir is made if nothing is there, and
\* OSError is raised if it is not a directory then.
MkDestDir ==
    /\ pc = "start"
    /\ dest' = IF dest = "absent" THEN "dir" ELSE dest
    /\ IF dest' # "dir"
       THEN pc' = "error" /\ err' = <<"dest", <<>>>>
       ELSE pc' = "walk" /\ err' = err
    /\ UNCHANGED <<cfgvars, root, listed, scanned, dups, yields, result,
                   present, moved, todo, cur, plans, log>>

\* The body of "for f in extracted" for the next file: under simulate the
\* action is printed, otherwise os.remove or shutil.move does it.
ActOnFile ==
    /\ pc = "act"
    /\ cur # <<>>
    /\ Head(cur) \in present
    /\ log' = IF simulate THEN Append(log, <<Verb, Head(cur)>>) ELSE log
    /\ present' = IF simulate THEN present ELSE present \ {Head(cur)}
    /\ moved' = IF ~simulate /\ op = "mv_file_dups" THEN moved \cup {Head(cur)}
                ELSE moved
    /\ cur' = Tail(cur)
    /\ pc' = IF cur' = <<>> THEN "plan" ELSE "act"
    /\ UNCHANGED <<cfgvars, root, listed, scanned, dups, yields, result, err,
                   dest, todo, plans>>

\* A loop body that catches the exception of os.remove or shutil.move and
\* goes on with the next file.
ActFailGoesOn ==
    /\ pc = "act"
    /\ cur # <<>>
    /\ ~simulate
    /\ err' = <<Verb, Head(cur)>>
    /\ cur' = Tail(cur)
    /\ pc' = IF cur' = <<>> THEN "plan" ELSE "act"
    /\ UNCHANGED <<cfgvars, root, listed, scanned, dups, yields, result,
                   dest, present, moved, todo, plans, log>>

\* os.remove or shutil.move raises: the exception leaves the action.
ActFail ==
    /\ pc = "act"
    /\ cur # <<>>
    /\ ~simulate
    /\ err' = <<Verb, Head(cur)>>
    /\ pc' = "error"
    /\ UNCHANGED <<cfgvars, actvars, root, listed, scanned, dups, yields, result>>

\* iter_file_dups has no group left: the action returns.
ActDone ==
    /\ pc = "plan"
    /\ todo = {}
    /\ pc' = "done"
    /\ UNCHANGED <<cfgvars, actvars, root, listed, scanned, dups, yields, result, err>>

\* ------------------------------------------------------------------ main

\* The decimal digits an argument is written with here.
Digits == {"0", "1", "2"}

DigitValue(c) == CASE c = "0" -> 0 [] c = "1" -> 1 [] c = "2" -> 2

RECURSIVE Decimal(_)
Decimal(s) ==
    IF s = <<>> THEN 0
    ELSE 10 * Decimal(SubSeq(s, 1, Len(s) - 1)) + DigitValue(s[Len(s)])

\* int(s) returns: s is an optional sign and at least one digit. Otherwise
\* int raises ValueError.
IsInt(s) ==
    LET body == IF s # <<>> /\ s[1] \in {"-", "+"} THEN Tail(s) ELSE s
    IN  body # <<>> /\ \A i \in 1..Len(body) : body[i] \in Digits

\* int(s), where it returns.
IntOf(s) ==
    IF s[1] = "-" THEN 0 - Decimal(Tail(s))
    ELSE IF s[1] = "+" THEN Decimal(Tail(s))
    ELSE Decimal(s)

\* -keep_prefix: the operand is the value of --keep, a string or None, and
\* neither has a unary minus: the expression raises TypeError.
NegRaises(kp) == kp = <<>> \/ Len(kp) = 1

\* main, from the parsed arguments to the call of the scan or of the action.
\* sys.exit(1) leaves at pc "exit"; an exception leaves at pc "error".
Main ==
    /\ pc = "main"
    /\ IF ~IsInt(args.block_size)
       THEN /\ log' = Append(log, <<"Invalid block size", args.block_size>>)
            /\ pc' = "exit"
            /\ UNCHANGED <<hashalgs, block_size, op, keep_prefix, err>>
       ELSE IF Len(args.digest_algs) # Len(_uniq_list(args.digest_algs))
       THEN /\ log' = Append(log, <<"Duplicate hash algorithms specified", <<>>>>)
            /\ pc' = "exit"
            /\ UNCHANGED <<hashalgs, block_size, op, keep_prefix, err>>
       ELSE /\ block_size' = IntOf(args.block_size)
            /\ hashalgs' = args.digest_algs
            /\ IF args.action \in {"print", "pprint"}
               THEN /\ op' = "file_dups"
                    /\ pc' = "walk"
                    /\ UNCHANGED <<keep_prefix, err, log>>
               ELSE IF args.action = "move"
               THEN /\ op' = "mv_file_dups"
                    /\ keep_prefix' = args.keep
                    /\ pc' = "start"
                    /\ UNCHANGED <<err, log>>
               ELSE IF args.action = "remove"
               THEN IF NegRaises(args.keep)
                    THEN /\ err' = <<"TypeError", <<>>>>
                         /\ pc' = "error"
                         /\ UNCHANGED <<op, keep_prefix, log>>
                    ELSE /\ op' = "rm_file_dups"
                         /\ keep_prefix' = args.keep
                         /\ pc' = "walk"
                         /\ UNCHANGED <<err, log>>
               ELSE /\ log' = Append(log, <<"Invalid action", args.action>>)
                    /\ pc' = "done"
                    /\ UNCHANGED <<op, keep_prefix, err>>
    /\ UNCHANGED <<fs, links, topdirs, safe_mode, simulate, iovars, root, listed,
                   scanned, dups, yields, result, dest, present, moved, todo,
                   cur, plans>>

\* ------------------------------------------------------- specifications

BlockSizes == {1, 2}

AlgLists == {<<"md5">>, <<"md5", "sha1">>}

\* The lists of at most n top directories.
RECURSIVE DirLists(_)
DirLists(n) ==
    IF n = 0 THEN {<<>>}
    ELSE DirLists(n - 1) \cup
         {Append(t, d) : t \in {u \in DirLists(n - 1) : Len(u) = n - 1}, d \in Dirs}

Init ==
    /\ fs \in [Paths -> Contents]
    /\ links = Links
    /\ topdirs \in DirLists(MaxRoots)
    /\ root = 1
    /\ listed = {}
    /\ hashalgs \in AlgLists
    /\ block_size \in BlockSizes
    /\ safe_mode \in BOOLEAN
    /\ op \in {"file_dups", "file_dups_immediate"}
    /\ pc = "walk"
    /\ scanned = <<>>
    /\ dups = NoResult
    /\ yields = <<>>
    /\ result = NoResult
    /\ err = <<>>
    /\ simulate = FALSE
    /\ keep_prefix = <<>>
    /\ dest = "absent"
    /\ present = Paths
    /\ moved = {}
    /\ todo = {}
    /\ cur = <<>>
    /\ plans = <<>>
    /\ log = <<>>
    /\ args = <<>>
    /\ handles = {}
    /\ alg_at = 0
    /\ cmp_at = 0
    /\ fbeq = <<>>

Next ==
    \/ \E e \in Entries : ScanStep(e)
    \/ \E e \in Entries : HashFail(e)
    \/ \E e \in Entries : CmpFail(e)
    \/ Resume
    \/ Stop
    \/ Finish

Spec == Init /\ [][Next]_vars

\* The remove and move actions, on trees of four regular files.
ActContents == {<<>>, <<0>>, <<1>>}

KeepPrefixes == {<<>>, <<<<>>>>, <<<<"a">>>>, <<<<"a", "y">>>>, <<<<"c">>>>}

InitAct ==
    /\ fs \in [ActPaths -> ActContents]
    /\ links = {}
    /\ topdirs \in {<<"a", "b">>, <<"b", "a">>}
    /\ root = 1
    /\ listed = {}
    /\ hashalgs = <<"md5">>
    /\ block_size \in {2}
    /\ safe_mode \in BOOLEAN
    /\ simulate \in BOOLEAN
    /\ keep_prefix \in KeepPrefixes
    /\ \/ op = "rm_file_dups" /\ pc = "walk" /\ dest = "absent"
       \/ op = "mv_file_dups" /\ pc = "start" /\ dest \in {"absent", "dir", "file"}
    /\ scanned = <<>>
    /\ dups = NoResult
    /\ yields = <<>>
    /\ result = NoResult
    /\ err = <<>>
    /\ present = ActPaths
    /\ moved = {}
    /\ todo = {}
    /\ cur = <<>>
    /\ plans = <<>>
    /\ log = <<>>
    /\ args = <<>>
    /\ handles = {}
    /\ alg_at = 0
    /\ cmp_at = 0
    /\ fbeq = <<>>

NextAct ==
    \/ MkDestDir
    \/ \E e \in Entries : ScanStep(e)
    \/ \E e \in Entries : HashFail(e)
    \/ \E e \in Entries : CmpFail(e)
    \/ IterFileDups
    \/ \E k \in Hexmds : PlanGroup(k)
    \/ ActOnFile
    \/ ActFail
    \/ ActDone

SpecAct == InitAct /\ [][NextAct]_vars

\* main, on command lines with good and bad values of --block-size,
\* --digest-algs and --action. --simulate, --safe-mode, --move and the
\* directories are passed on as they are.
BlockSizeArgs == {<<"x">>, <<"0">>, <<"-", "1">>, <<"1">>, <<"2">>}

DigestAlgsArgs == {<<"md5">>, <<"md5", "md5">>, <<"md5", "sha1">>}

ActionArgs == {"pprint", "print", "remove", "move", "delete"}

KeepArgs == {<<>>, <<<<"a">>>>}

MainContents == {<<>>, <<1>>}

InitMain ==
    /\ args \in [block_size : BlockSizeArgs, digest_algs : DigestAlgsArgs,
                  action : ActionArgs, keep : KeepArgs]
    /\ fs \in [Paths -> MainContents]
    /\ links = {}
    /\ topdirs = <<"a", "b">>
    /\ root = 1
    /\ listed = {}
    /\ hashalgs = <<>>
    /\ block_size = 0
    /\ safe_mode \in BOOLEAN
    /\ simulate \in BOOLEAN
    /\ keep_prefix = <<>>
    /\ op = "main"
    /\ pc = "main"
    /\ dest = "absent"
    /\ scanned = <<>>
    /\ dups = NoResult
    /\ yields = <<>>
    /\ result = NoResult
    /\ err = <<>>
    /\ present = Paths
    /\ moved = {}
    /\ todo = {}
    /\ cur = <<>>
    /\ plans = <<>>
    /\ log = <<>>
    /\ handles = {}
    /\ alg_at = 0
    /\ cmp_at = 0
    /\ fbeq = <<>>

NextMain ==
    \/ Main
    \/ MkDestDir
    \/ \E e \in Entries : ScanStep(e)
    \/ \E e \in Entries : HashFail(e)
    \/ \E e \in Entries : CmpFail(e)
    \/ Finish
    \/ IterFileDups
    \/ \E k \in Hexmds : PlanGroup(k)
    \/ ActOnFile
    \/ ActFail
    \/ ActDone

SpecMain == InitMain /\ [][NextMain]_vars

\* The incremental scan with the opening and closing of files as steps.
HandleContents == {<<>>, <<0>>, <<1>>}

InitHandles ==
    /\ fs \in [Paths -> HandleContents]
    /\ links = Links
    /\ topdirs \in {<<"a", "b">>, <<"b", "a">>, <<"a", "a">>}
    /\ root = 1
    /\ listed = {}
    /\ hashalgs \in AlgLists
    /\ block_size \in {2}
    /\ safe_mode \in BOOLEAN
    /\ op = "file_dups_immediate"
    /\ pc = "walk"
    /\ scanned = <<>>
    /\ dups = NoResult
    /\ yields = <<>>
    /\ result = NoResult
    /\ err = <<>>
    /\ simulate = FALSE
    /\ keep_prefix = <<>>
    /\ dest = "absent"
    /\ present = Paths
    /\ moved = {}
    /\ todo = {}
    /\ cur = <<>>
    /\ plans = <<>>
    /\ log = <<>>
    /\ args = <<>>
    /\ handles = {}
    /\ alg_at = 0
    /\ cmp_at = 0
    /\ fbeq = <<>>

NextHandles ==
    \/ \E e \in Entries : HashOpen(e)
    \/ \E e \in Entries : HashOpenFail(e)
    \/ HashClose
    \/ HashRaise
    \/ CmpOpen
    \/ CmpClose
    \/ CmpRaise
    \/ AppendAndYield
    \/ Resume
    \/ Stop
    \/ Finish

SpecHandles == InitHandles /\ [][NextHandles]_vars

\* _fbequal by itself, on every pair of contents of at most MaxLen bytes.
ByteSeqs(n) == UNION {[1..k -> 0..1] : k \in 0..n}

InitFbEqual ==
    /\ fs \in [{<<"a", "x">>, <<"a", "y">>} -> ByteSeqs(MaxLen)]
    /\ links = {}
    /\ topdirs = <<>>
    /\ root = 1
    /\ listed = {}
    /\ hashalgs = <<"md5">>
    /\ block_size \in {2}
    /\ safe_mode = TRUE
    /\ op = "_fbequal"
    /\ pc = "call"
    /\ scanned = <<>>
    /\ dups = NoResult
    /\ yields = <<>>
    /\ result = NoResult
    /\ err = <<>>
    /\ simulate = FALSE
    /\ keep_prefix = <<>>
    /\ dest = "absent"
    /\ present = DOMAIN fs
    /\ moved = {}
    /\ todo = {}
    /\ cur = <<>>
    /\ plans = <<>>
    /\ log = <<>>
    /\ args = <<>>
    /\ handles = {}
    /\ alg_at = 0
    /\ cmp_at = 0
    /\ fbeq = <<>>

NextFbEqual == \E fpath1, fpath2 \in Paths : CallFbEqual(fpath1, fpath2)

SpecFbEqual == InitFbEqual /\ [][NextFbEqual]_vars

\* ------------------------------------------------- claims about the scan

\* The distinct scanned paths whose content is c.
SameContent(c) == {p \in Range(scanned) : fs[p] = c}

\* A scanned file of another content has the fingerprint of content c.
Collides(c) == \E q \in Range(scanned) : fs[q] # c /\ Hexmd(fs[q]) = Hexmd(c)

NoRepeat(list_) == Cardinality(Range(list_)) = Len(list_)

InNoGroup(d, p) == \A k \in DOMAIN d : p \notin Range(d[k])

BatchDone == pc = "done" /\ op = "file_dups"

\* The set of scanned files of content c is returned as the group of its
\* fingerprint, once per distinct path.
GroupedAsOne(c) ==
    /\ Hexmd(c) \in DOMAIN result
    /\ Range(result[Hexmd(c)]) = SameContent(c)
    /\ Len(result[Hexmd(c)]) = Cardinality(SameContent(c))

\* C1 as stated: every set of two or more scanned files of identical content
\* is returned by a completed batch scan as one group, under one fingerprint,
\* whose size is the number of distinct canonical paths of the set.
C1_AllIdenticalGrouped ==
    BatchDone =>
        \A c \in Contents : Cardinality(SameContent(c)) >= 2 => GroupedAsOne(c)

\* C1 amended: the same, for the sets whose fingerprint no scanned file of a
\* different content shares.
C1_IdenticalGroupedNoCollision ==
    BatchDone =>
        \A c \in Contents :
            (Cardinality(SameContent(c)) >= 2 /\ ~Collides(c)) => GroupedAsOne(c)

\* A completed safe mode batch scan that met a path twice (through the link or
\* an overlapping root) and returned a group of two distinct paths.
C1_Witness ==
    /\ BatchDone
    /\ safe_mode
    /\ ~NoRepeat(scanned)
    /\ \E c \in Contents :
          Cardinality(SameContent(c)) = 2 /\ ~Collides(c) /\ GroupedAsOne(c)

\* Every returned group has two distinct paths or more, and a fingerprint with
\* one unique member is in the index and not in the result.
GroupsOfTwo ==
    /\ \A k \in DOMAIN result : Cardinality(Range(result[k])) >= 2
    /\ \A k \in DOMAIN dups :
          Cardinality(Range(dups[k])) = 1 => k \notin DOMAIN result
    /\ \A p \in Range(scanned) :
          Hexmd(fs[p]) \in DOMAIN dups /\ dups[Hexmd(fs[p])] # <<>>

\* C2 as stated: every group of the batch result has at least two distinct
\* paths, singletons stay in the index and out of the result, and a file whose
\* content differs from every other scanned file is in no returned group.
C2_UniqueInNoGroup ==
    BatchDone =>
        /\ GroupsOfTwo
        /\ \A p \in Range(scanned) :
              SameContent(fs[p]) = {p} => InNoGroup(result, p)

\* C2 amended: the same, the last part in safe mode or when no scanned file of
\* another content shares the file's fingerprint.
C2_UniqueInNoGroupUnlessCollision ==
    BatchDone =>
        /\ GroupsOfTwo
        /\ \A p \in Range(scanned) :
              (SameContent(fs[p]) = {p} /\ (safe_mode \/ ~Collides(fs[p])))
                  => InNoGroup(result, p)

\* A completed batch scan of files of different contents, one of them met
\* twice: the index holds singletons and the result is empty.
C2_Witness ==
    /\ BatchDone
    /\ \E k \in DOMAIN dups : Len(dups[k]) = 2 /\ Cardinality(Range(dups[k])) = 1
    /\ \A p \in Range(scanned) : SameContent(fs[p]) = {p}
    /\ DOMAIN result = {}

\* The path the step from this state to the next one processed.
Stepped == Len(scanned') = Len(scanned) + 1
LastPath == scanned'[Len(scanned')]

\* C3: in safe mode a file with the fingerprint of a group and the bytes of
\* none of its members is added to no group, the scan goes on with the next
\* path, and the file stays in no group for the rest of the run; with safe
\* mode off the file is appended to the group of its fingerprint.
C3_CollisionNotMerged ==
    [][ /\ (Stepped /\ err' = <<>>) =>
            LET g == DupFiles(Hexmd(fs[LastPath]))
            IN  /\ (safe_mode /\ g # <<>>
                      /\ \A i \in 1..Len(g) : fs[g[i]] # fs[LastPath])
                       => (dups' = dups /\ yields' = yields /\ pc' = "walk")
                /\ ~safe_mode => dups'[Hexmd(fs[LastPath])] = Append(g, LastPath)
        /\ safe_mode =>
              \A q \in Range(scanned) : InNoGroup(dups, q) => InNoGroup(dups', q)
      ]_vars

\* A safe mode scan that turned its second path away and went on to a third.
C3_Witness ==
    /\ safe_mode
    /\ err = <<>>
    /\ Len(scanned) = 3
    /\ InNoGroup(dups, scanned[2])
    /\ Hexmd(fs[scanned[2]]) = Hexmd(fs[scanned[1]])

SameBytes(list_) == \A i, j \in 1..Len(list_) : fs[list_[i]] = fs[list_[j]]

\* C4: in safe mode any two members of a group have the same bytes, in the
\* index, in every yielded member list and in the batch result.
C4_SafeGroupsByteEqual ==
    safe_mode =>
        /\ \A k \in DOMAIN dups : SameBytes(dups[k])
        /\ \A k \in DOMAIN result : SameBytes(result[k])
        /\ \A n \in 1..Len(yields) : SameBytes(yields[n].members)

\* A safe mode group of two distinct paths beside a scanned file of the same
\* fingerprint and other bytes.
C4_Witness ==
    /\ safe_mode
    /\ \E k \in DOMAIN dups :
          /\ Cardinality(Range(dups[k])) = 2
          /\ \E q \in Range(scanned) : Hexmd(fs[q]) = k /\ q \notin Range(dups[k])

\* C5: the incremental scan yields for a path exactly when the path was
\* appended to a group that had a member; the yield is (path, fingerprint,
\* member list) with the path last in the list, and the scan is suspended
\* there: no path is hashed before the consumer resumes it.
C5_YieldIffJoined ==
    [][ op = "file_dups_immediate" =>
          /\ (Stepped /\ err' = <<>>) =>
                LET h == Hexmd(fs[LastPath])
                    g == DupFiles(h)
                    joined == g # <<>> /\ dups'[h] = Append(g, LastPath)
                IN  /\ (Len(yields') = Len(yields) + 1) <=> joined
                    /\ ~joined => yields' = yields
                    /\ joined =>
                          /\ pc' = "yield"
                          /\ SubSeq(yields', 1, Len(yields)) = yields
                          /\ yields'[Len(yields')] =
                                [fpath |-> LastPath, hexmd |-> h, members |-> dups'[h]]
                          /\ yields'[Len(yields')].members[Len(dups'[h])] = LastPath
          /\ ~Stepped => yields' = yields
          /\ pc = "yield" => scanned' = scanned
      ]_vars

\* The incremental scan is suspended at a yield it made for its third path.
C5_Witness ==
    /\ op = "file_dups_immediate"
    /\ pc = "yield"
    /\ Len(scanned) = 3
    /\ yields[Len(yields)].fpath = scanned[3]

\* C6: no path is twice in a group handed to a caller: a group of the batch
\* result or the member list of an incremental yield.
C6_NoPathTwice ==
    /\ \A k \in DOMAIN result : NoRepeat(result[k])
    /\ \A n \in 1..Len(yields) : NoRepeat(yields[n].members)

Failing == err[2]

\* C10 as stated: a failure of hashing or comparing ends the scan with the
\* error, no later path is hashed, the failing file is in no group and the
\* batch scan returns nothing.
C10_FailingFileInNoGroup ==
    err # <<>> =>
        /\ pc = "error"
        /\ Failing = scanned[Len(scanned)]
        /\ result = NoResult
        /\ InNoGroup(dups, Failing)
        /\ \A n \in 1..Len(yields) : Failing \notin Range(yields[n].members)

\* C10 amended: the same, where the failing step adds the failing file to no
\* group and yields nothing: the file is in a group only if the same canonical
\* path was met and accepted earlier in the run.
C10_FailureEndsScan ==
    [][ /\ err' # <<>> =>
            /\ pc' = "error"
            /\ Failing' = scanned'[Len(scanned')]
            /\ result' = NoResult
            /\ ~InNoGroup(dups', Failing')
                  => Failing' \in Range(SubSeq(scanned', 1, Len(scanned') - 1))
        /\ (err = <<>> /\ err' # <<>>) =>
              (Stepped /\ dups' = dups /\ yields' = yields)
        /\ err # <<>> => UNCHANGED <<root, listed, scanned, dups, yields, result, err, pc>>
      ]_vars

\* A safe mode scan ended by a failing byte comparison after two paths were
\* indexed.
C10_Witness ==
    /\ pc = "error"
    /\ err[1] = "cmp"
    /\ Len(scanned) = 3
    /\ InNoGroup(dups, Failing)

\* Yields i and j are successive yields for one fingerprint.
Successive(ys, i, j) ==
    /\ i < j
    /\ ys[i].hexmd = ys[j].hexmd
    /\ \A m \in (i + 1)..(j - 1) : ys[m].hexmd # ys[i].hexmd

\* C13: within one scan a group only grows by appending: no step removes or
\* reorders a member of a group, and of two successive incremental yields for
\* one fingerprint the later member list is the earlier one, as it was when
\* yielded, with exactly one path added at its end.
C13_GroupsGrowByAppending ==
    [][/\ \A k \in DOMAIN dups :
            /\ k \in DOMAIN dups'
            /\ \/ dups'[k] = dups[k]
               \/ \E p \in DOMAIN fs : dups'[k] = Append(dups[k], p)
       /\ \A i, j \in 1..Len(yields') :
            Successive(yields', i, j) =>
                yields'[j].members = Append(yields'[i].members, yields'[j].fpath)]_vars

\* A fingerprint was yielded twice, the second time with three members.
C13_Witness ==
    \E i, j \in 1..Len(yields) :
        /\ Successive(yields, i, j)
        /\ Len(yields[j].members) = 3

\* The incremental scan was pulled until it ended.
ImmediateDone == pc = "done" /\ op = "file_dups_immediate"

\* The last yield for fingerprint k is yield n.
LastYield(k, n) ==
    /\ yields[n].hexmd = k
    /\ \A m \in (n + 1)..Len(yields) : yields[m].hexmd # k

\* C14: for one enumeration sequence, algorithms and safe mode, an
\* incremental scan pulled to its end agrees with the batch scan: the
\* fingerprints yielded are the keys of the batch result, and the member list
\* of the last yield for a fingerprint is the batch group, path by path. The
\* batch scan of the sequence builds the index dups by the same loop body and
\* returns Finalize(dups).
C14_IncrementalAgreesWithBatch ==
    ImmediateDone =>
        LET batch == Finalize(dups)
        IN  /\ {yields[n].hexmd : n \in 1..Len(yields)} = DOMAIN batch
            /\ \A k \in DOMAIN batch : \A n \in 1..Len(yields) :
                   LastYield(k, n) => yields[n].members = batch[k]

\* The digest of file p by the i-th configured algorithm.
DigestOf(p, i) == _filehash(fs[p], hashalgs[i], block_size)

SomeDigestDiffers(p, q) == \E i \in 1..Len(hashalgs) : DigestOf(p, i) # DigestOf(q, i)

\* The member lists handed out or held: the index, the yields, the result.
MemberLists ==
    {dups[k] : k \in DOMAIN dups} \cup {result[k] : k \in DOMAIN result}
        \cup {yields[n].members : n \in 1..Len(yields)}

\* C15: two files are in one group only if their digests are equal for every
\* configured algorithm, compared as a tuple in the configured order: the key
\* of a group is the tuple of its members' digests, and files that differ in
\* the digest of at least one algorithm are never in one group.
C15_GroupedByDigestTuple ==
    /\ \A k \in DOMAIN dups :
          /\ Len(k) = Len(hashalgs)
          /\ \A p \in Range(dups[k]) : \A i \in 1..Len(hashalgs) : DigestOf(p, i) = k[i]
    /\ \A g \in MemberLists : \A p, q \in Range(g) : ~SomeDigestDiffers(p, q)

\* Two scanned files with the same first digest and different second digests,
\* each in a group of the index.
C15_Witness ==
    /\ Len(hashalgs) = 2
    /\ \E p, q \in Range(scanned) :
          /\ DigestOf(p, 1) = DigestOf(q, 1)
          /\ DigestOf(p, 2) # DigestOf(q, 2)
          /\ ~InNoGroup(dups, p)
          /\ ~InNoGroup(dups, q)

\* C18: wherever the incremental scan is suspended at a yield (or was closed
\* there), no file the scan opened is still open, and the same holds when a
\* step of the scan has left with an I/O error, and when the scan has ended.
C18_NoOpenFileAtYield ==
    pc \in {"yield", "closed", "error", "done"} => handles = {}

\* A safe mode scan that yielded after a byte comparison and then left with
\* an error raised inside a comparison.
C18_Witness ==
    /\ pc = "error"
    /\ err[1] = "cmp"
    /\ yields # <<>>

\* c1 is a proper prefix of c2.
ProperPrefix(c1, c2) == Len(c1) < Len(c2) /\ SubSeq(c2, 1, Len(c1)) = c1

\* C19: _fbequal returns True for two readable files exactly when they have
\* the same length and the same byte at every position, two empty files
\* included, and False when one file is a proper prefix of the other.
C19_FbEqualIffSameBytes ==
    fbeq # <<>> =>
        LET c1 == fbeq[1]
            c2 == fbeq[2]
            returned == fbeq[3]
        IN  /\ returned <=> (Len(c1) = Len(c2) /\ \A i \in 1..Len(c1) : c1[i] = c2[i])
            /\ (c1 = <<>> /\ c2 = <<>>) => returned
            /\ (ProperPrefix(c1, c2) \/ ProperPrefix(c2, c1)) => ~returned

\* _fbequal was called on a file of two bytes and a longer file that starts
\* with them.
C19_Witness ==
    /\ fbeq # <<>>
    /\ Len(fbeq[1]) = 2
    /\ ProperPrefix(fbeq[1], fbeq[2])

\* ---------------------------------------------- claims about the actions

\* q is a prefix of the string f.
HasPrefix(f, q) == Len(q) <= Len(f) /\ SubSeq(f, 1, Len(q)) = q

\* The positions of the members of files that start with the keep prefix.
Matching(files) ==
    IF keep_prefix = <<>> THEN {}
    ELSE {i \in 1..Len(files) : HasPrefix(files[i], keep_prefix[1])}

Without(files, i) == SubSeq(files, 1, i - 1) \o SubSeq(files, i + 1, Len(files))

\* C7: for a group of N members and a keep prefix that is a prefix of exactly
\* one member, the extracted files are the other N-1 members and not that
\* one, wherever the member stands in the group.
C7_KeepsTheOneMatch ==
    \A n \in 1..Len(plans) :
        LET files == plans[n].files
            extras == plans[n].result
        IN  (keep_prefix # <<>> /\ Cardinality(Matching(files)) = 1) =>
                \A i \in Matching(files) :
                    /\ files[i] \notin Range(extras)
                    /\ Range(extras) = Range(files) \ {files[i]}
                    /\ Len(extras) = Len(files) - 1

\* A group of three whose only member with the prefix is the last one.
C7_Witness ==
    \E n \in 1..Len(plans) :
        /\ Len(plans[n].files) = 3
        /\ Matching(plans[n].files) = {3}

\* The position of the member the keep policy is to keep.
KeptIndex(files) ==
    IF Matching(files) = {} THEN 1
    ELSE CHOOSE i \in Matching(files) : \A j \in Matching(files) : i <= j

\* C8: one member of every group is kept: the first one when no keep prefix
\* is given or no member starts with it, otherwise the first member that
\* starts with it; the extracted files are the others, in discovery order.
C8_KeepsExactlyOne ==
    \A n \in 1..Len(plans) :
        LET files == plans[n].files
        IN  /\ Len(files) >= 2
            /\ plans[n].result = Without(files, KeptIndex(files))

\* A group in which two members start with the prefix and the first member
\* does not.
C8_Witness ==
    \E n \in 1..Len(plans) :
        /\ Cardinality(Matching(plans[n].files)) = 2
        /\ 1 \notin Matching(plans[n].files)

\* C9: with simulate on, the remove and the move action leave the file system
\* as it is: no file is removed or moved and no directory is made.
C9_SimulateLeavesFilesystem ==
    [][simulate => UNCHANGED <<present, moved, dest>>]_vars

\* os.remove or shutil.move has raised.
ActionFailed(e) == e # <<>> /\ e[1] \in {"rm", "mv"}

\* C16: when removing or moving one extra file fails, the action stops with
\* that error: the failing step and every step after it leave the files as
\* they are, so the files removed or moved before stay so, and the failing
\* file, the later extras of its group and the members of the later groups
\* are where they were.
C16_FailureStopsTheAction ==
    [][ActionFailed(err') =>
          /\ pc' = "error"
          /\ UNCHANGED <<present, moved>>
          /\ err'[2] = Head(cur')
          /\ Range(cur') \subseteq present'
          /\ Range(cur') \cap moved' = {}
          /\ \A k \in todo' : Range(result'[k]) \subseteq present'
      ]_vars

\* The action failed on the second extra of a group of four, after it had
\* removed or moved the first.
C16_Witness ==
    /\ ActionFailed(err)
    /\ present # DOMAIN fs
    /\ Len(cur) = 2

\* The files removed or moved so far.
ActedOn == (DOMAIN fs \ present) \cup moved

\* C17: in remove and move no file is removed or moved before the scan has
\* hashed every enumerated path: the groups acted on are the finished result
\* of the batch scan. Every file removed or moved is a member other than the
\* kept one of a returned group of at least two distinct paths, and the kept
\* member of every returned group is left in place.
C17_ActsOnFinishedGroupsOnly ==
    /\ ActedOn # {} =>
          /\ Exhausted
          /\ pc \in {"plan", "act", "done", "error"}
          /\ result = Finalize(dups)
    /\ \A f \in ActedOn :
          \E k \in DOMAIN result :
              /\ f \in Range(result[k])
              /\ Cardinality(Range(result[k])) >= 2
              /\ f # result[k][KeptIndex(result[k])]
    /\ \A k \in DOMAIN result :
          /\ result[k][KeptIndex(result[k])] \in present
          /\ result[k][KeptIndex(result[k])] \notin moved

\* The action is through with two groups and has removed or moved a file of
\* each.
C17_Witness ==
    /\ pc = "done"
    /\ Cardinality(DOMAIN result) = 2
    /\ Cardinality(ActedOn) = 2

\* ------------------------------------------------------ claims about main

\* The command line names a block size that is not a positive integer, a
\* digest algorithm twice, or an action that is none of the four.
BadConfiguration ==
    \/ ~IsInt(args.block_size)
    \/ IsInt(args.block_size) /\ IntOf(args.block_size) <= 0
    \/ \E i, j \in 1..Len(args.digest_algs) :
           i # j /\ args.digest_algs[i] = args.digest_algs[j]
    \/ args.action \notin {"pprint", "print", "remove", "move"}

\* C11: at main, a block size that is not a positive integer, a digest
\* algorithm list with a repeated name or an unrecognized action is reported
\* as a configuration error, and no file is hashed, removed or moved.
C11_BadConfigurationScansNothing ==
    BadConfiguration =>
        /\ scanned = <<>>
        /\ present = Paths
        /\ moved = {}
        /\ pc \in {"main", "exit", "done", "error"}

\* C12: when remove is selected, the keep prefix (a string, or absent)
\* reaches the remove action as it was given, so the remove action runs
\* and keeps the first member whose path starts with it (the first
\* discovered one when it is absent).
C12_RemoveGetsKeepPrefix ==
    (pc # "main" /\ ~BadConfiguration /\ args.action = "remove") =>
        /\ op = "rm_file_dups"
        /\ keep_prefix = args.keep
        /\ err = <<>> \/ err[1] # "TypeError"
        /\ \A n \in 1..Len(plans) :
               plans[n].result = Without(plans[n].files, KeptIndex(plans[n].files))

====
